---- MODULE Spec2Model ----
(***************************************************************************)
(* DeskGPT: the LLM action-generation client, the browser controller and   *)
(* the task orchestrator (CommandParser.execute_task), as a state machine. *)
(*                                                                         *)
(* The browser driver (Playwright) and the LLM API are external: a driver  *)
(* call either succeeds or raises, the LLM reply is any reply of Replies.  *)
(* The program is one asyncio task: the controller's operations and the    *)
(* steps of execute_task never interleave with each other.                 *)
(***************************************************************************)
EXTENDS Integers, Sequences, FiniteSets, TLC

\* ------------------------------------------------------------------ bounds
MaxPlan == 2        \* longest LLM reply (number of JSON elements)
MaxLaunch == 2      \* initialize() calls in one run of the model

\* ------------------------------------------------------------- data model
NoneS == "<None>"   \* Python None in a string-valued field
NoneI == -1         \* Python None in wait_time

ActionType == {"navigate", "click", "type", "scroll", "wait", "screenshot", "extract"}
ScrollDirection == {"up", "down"}
ExtractType == {"text", "html", "links"}

Act(t, sel, txt, u, w, sd, et) ==
    [type |-> t, selector |-> sel, text |-> txt, url |-> u,
     wait_time |-> w, scroll_direction |-> sd, extract_type |-> et]

\* JSON objects an LLM reply may hold: well-formed actions, actions that lack
\* a field, and objects the WebAction model rejects.
RawPool ==
    { Act("navigate", NoneS, NoneS, "example.com", NoneI, NoneS, NoneS),
      Act("navigate", NoneS, NoneS, NoneS, NoneI, NoneS, NoneS),
      Act("navigate", NoneS, NoneS, "", NoneI, NoneS, NoneS),
      Act("click", "#btn", NoneS, NoneS, NoneI, NoneS, NoneS),
      Act("click", NoneS, NoneS, NoneS, NoneI, NoneS, NoneS),
      Act("type", "#q", "hello", NoneS, NoneI, NoneS, NoneS),
      Act("type", NoneS, "hello", NoneS, NoneI, NoneS, NoneS),
      Act("type", "#q", NoneS, NoneS, NoneI, NoneS, NoneS),
      Act("scroll", NoneS, NoneS, NoneS, NoneI, "up", NoneS),
      Act("scroll", NoneS, NoneS, NoneS, NoneI, NoneS, NoneS),
      Act("scroll", NoneS, NoneS, NoneS, NoneI, "left", NoneS),
      Act("wait", NoneS, NoneS, NoneS, 2000, NoneS, NoneS),
      Act("wait", NoneS, NoneS, NoneS, NoneI, NoneS, NoneS),
      Act("screenshot", NoneS, NoneS, NoneS, NoneI, NoneS, NoneS),
      Act("extract", NoneS, NoneS, NoneS, NoneI, NoneS, "links"),
      Act("extract", NoneS, NoneS, NoneS, NoneI, NoneS, NoneS),
      Act("extract", NoneS, NoneS, NoneS, NoneI, NoneS, "json"),
      Act("hover", "#btn", NoneS, NoneS, NoneI, NoneS, NoneS) }

\* WebAction(**action_data): pydantic rejects a value outside an enumerated
\* field's set; every field but type is Optional.
Constructs(d) ==
    /\ d.type \in ActionType
    /\ d.scroll_direction \in ScrollDirection \cup {NoneS}
    /\ d.extract_type \in ExtractType \cup {NoneS}

WebActions == {d \in RawPool : Constructs(d)}

SeqsUpTo(S, n) == UNION {[1..k -> S] : k \in 0..n}

\* The replies of the chat completion: the call raises, the content is empty,
\* the content is not JSON, the JSON is no array of objects, or an array.
Replies ==
    {[kind |-> k, items |-> <<>>] : k \in {"api_error", "empty", "bad_json", "not_array"}}
    \cup {[kind |-> "array", items |-> s] : s \in SeqsUpTo(RawPool, MaxPlan)}

\* Python truthiness of an Optional[str]: None and "" are falsy.
Falsy(s) == s = NoneS \/ s = ""

\* CommandResult(success, data, error, screenshot); data is kept as the marker
\* of the sub-operation that built it, error "" stands for None.
\* value is the number data carries (wait_time, scroll_amount), else 0.
Result(ok, d, e, shot) ==
    [success |-> ok, data |-> d, value |-> 0, error |-> e, screenshot |-> shot]
NoResult == Result(FALSE, "<no result>", "<no result>", FALSE)

\* ------------------------------------------------------------- LLM client
\* `value not in EnumClass` answers False for a member. For a value that is no
\* Enum member (None) the interpreter decides: EnumMeta.__contains__ raises
\* TypeError before Python 3.12 (legacy) and answers False from 3.12 on.
EnumContains(v, E, legacy) ==
    IF v \in E THEN "True" ELSE IF legacy THEN "TypeError" ELSE "False"

\* LLMClient._is_valid_action: "True", "False", or the exception raised.
_is_valid_action(action, legacy) ==
    LET inType == EnumContains(action.type, ActionType, legacy)
        inDir  == EnumContains(action.scroll_direction, ScrollDirection, legacy)
        inExt  == EnumContains(action.extract_type, ExtractType, legacy)
    IN  IF inType # "True" THEN inType
        ELSE IF action.type = "navigate" /\ Falsy(action.url) THEN "False"
        ELSE IF action.type \in {"click", "type"} /\ Falsy(action.selector) THEN "False"
        ELSE IF action.type = "type" /\ Falsy(action.text) THEN "False"
        ELSE IF action.type = "scroll" /\ inDir # "True" THEN inDir
        ELSE IF action.type = "extract" /\ inExt # "True" THEN inExt
        ELSE "True"

\* LLMClient._validate_actions: the loop over the actions, appending the valid
\* ones; an exception of _is_valid_action ends the loop and propagates.
RECURSIVE ValidateFrom(_, _, _, _)
ValidateFrom(actions, i, valid_actions, legacy) ==
    IF i > Len(actions) THEN [raised |-> FALSE, actions |-> valid_actions]
    ELSE LET v == _is_valid_action(actions[i], legacy)
         IN  IF v = "TypeError" THEN [raised |-> TRUE, actions |-> <<>>]
             ELSE IF v = "False" THEN ValidateFrom(actions, i + 1, valid_actions, legacy)
             ELSE ValidateFrom(actions, i + 1, Append(valid_actions, actions[i]), legacy)

_validate_actions(actions, legacy) == ValidateFrom(actions, 1, <<>>, legacy)

Generated(acts) == [raised |-> FALSE, error |-> "", actions |-> acts]
GenerationError(e) == [raised |-> TRUE, error |-> e, actions |-> <<>>]

\* LLMClient.generate_web_actions: one completion call, json.loads, the
\* construction of every WebAction, then _validate_actions; every exception
\* leaves as a ValueError naming its cause.
generate_web_actions(reply, legacy) ==
    IF reply.kind = "api_error" THEN
        GenerationError("Failed to generate actions: API error")
    ELSE IF reply.kind = "empty" THEN
        GenerationError("Failed to generate actions: No response from OpenAI")
    ELSE IF reply.kind = "bad_json" THEN
        GenerationError("Invalid JSON response from OpenAI")
    ELSE IF reply.kind = "not_array" THEN
        GenerationError("Failed to generate actions: TypeError")
    ELSE IF \E i \in 1..Len(reply.items) : ~Constructs(reply.items[i]) THEN
        GenerationError("Failed to generate actions: ValidationError")
    ELSE LET v == _validate_actions(reply.items, legacy)
         IN  IF v.raised THEN GenerationError("Failed to generate actions: TypeError")
             ELSE Generated(v.actions)

\* ------------------------------------------------------ browser controller
NoHandle == 0           \* self.page / self.browser / self.playwright is None
DefaultWaitMs == 1000   \* action.wait_time or 1000
ScrollStep == 500       \* window.scrollBy(0, +-500)

\* What a sub-operation does: the CommandResult it returns, or the description
\* of the exception it raises; drv is the driver calls it made.
Returns(r, calls) == [exc |-> "", result |-> r, drv |-> calls]
Raises(e, calls) == [exc |-> e, result |-> NoResult, drv |-> calls]
DriverError == "driver error"

\* str.startswith(prefix)
StartsWith(s, prefix) ==
    Len(s) >= Len(prefix) /\ SubSeq(s, 1, Len(prefix)) = prefix

RECURSIVE LStrip(_, _)
LStrip(s, chars) ==
    IF Len(s) > 0 /\ SubSeq(s, 1, 1) \in chars THEN LStrip(SubSeq(s, 2, Len(s)), chars)
    ELSE s

RECURSIVE RStrip(_, _)
RStrip(s, chars) ==
    IF Len(s) > 0 /\ SubSeq(s, Len(s), Len(s)) \in chars
    THEN RStrip(SubSeq(s, 1, Len(s) - 1), chars)
    ELSE s

\* str.strip(chars)
Strip(s, chars) == RStrip(LStrip(s, chars), chars)

Whitespace == {" ", "\t", "\n"}
Quotes == {"\"", "'"}

RECURSIVE Join(_, _)
\* sep.join(parts)
Join(parts, sep) ==
    IF parts = <<>> THEN ""
    ELSE IF Len(parts) = 1 THEN parts[1]
    ELSE parts[1] \o sep \o Join(Tail(parts), sep)

normalize_urlAlways(url) == "https://" \o url

\* The URL _navigate requests: a URL without an http:// or https:// prefix
\* gets https:// prepended.
normalize_url(url) ==
    IF ~(StartsWith(url, "http://") \/ StartsWith(url, "https://"))
    THEN "https://" \o url
    ELSE url

\* BrowserController._navigate. url.startswith on None raises before any
\* driver call. goto is the URL handed to page.goto.
_navigate(url, ok) ==
    IF url = NoneS THEN Raises("AttributeError", <<>>)
    ELSE [exc |-> IF ok THEN "" ELSE DriverError,
          result |-> IF ok THEN Result(TRUE, "navigated", "", FALSE) ELSE NoResult,
          drv |-> <<"goto">>,
          goto |-> normalize_url(url)]

\* The attempts of _click, in the order the code makes them.
ClickAttempts == {"verbatim", "text_exact", "text_partial", "xpath", "role"}
ClickFailed == "Failed to click element with provided selector and fallbacks. "
HasEnginePrefix(selector) ==
    \/ StartsWith(selector, "text=")
    \/ StartsWith(selector, "xpath=")
    \/ StartsWith(selector, "css=")

\* A fallback attempt of _click: after an earlier success (t.clicked) it is not
\* made; else it clicks, or appends its failure reason to errors.
Attempt(t, name, call, reason, att) ==
    IF t.clicked THEN t
    ELSE IF name \in att
    THEN [clicked |-> TRUE, errors |-> t.errors, drv |-> Append(t.drv, call)]
    ELSE [clicked |-> FALSE,
          errors |-> Append(t.errors, reason \o ": " \o DriverError),
          drv |-> Append(t.drv, call)]

TextFallbacksPartialFirst(t, selector, att) ==
    IF HasEnginePrefix(selector) THEN t
    ELSE Attempt(Attempt(t, "text_partial", "get_by_text", "text partial failed", att),
                 "text_exact", "get_by_text_exact", "text exact failed", att)

\* _click, the text fallbacks: exact match, then partial match, only for a
\* selector without an engine prefix.
TextFallbacks(t, selector, att) ==
    IF HasEnginePrefix(selector) THEN t
    ELSE Attempt(Attempt(t, "text_exact", "get_by_text_exact", "text exact failed", att),
                 "text_partial", "get_by_text", "text partial failed", att)

XPathFallbackAlways(t, selector, att) ==
    LET x == Attempt([t EXCEPT !.clicked = FALSE], "xpath", "locator_xpath",
                     "xpath failed", att)
    IN  [x EXCEPT !.clicked = t.clicked \/ x.clicked]

\* _click, the XPath fallback.
XPathFallback(t, selector, att) ==
    Attempt(t, "xpath", "locator_xpath", "xpath failed", att)

RoleFallbackSkipped(t, selector, att) == t

\* _click, the role-based button fallback.
RoleFallback(t, selector, att) ==
    Attempt(t, "role", "get_by_role", "role button exact failed", att)

\* BrowserController._click; att: the attempts that click when they are made.
\* A None selector fails the verbatim attempt and then selector.startswith
\* raises. The verbatim attempt's exception is dropped, the fallbacks' reasons
\* are collected in errors.
_click(selector, att) ==
    IF selector = NoneS THEN Raises("AttributeError", <<"wait_for_selector">>)
    ELSE IF "verbatim" \in att
    THEN [exc |-> "", result |-> Result(TRUE, "clicked", "", FALSE),
          drv |-> <<"wait_for_selector", "click">>, errors |-> <<>>,
          selector |-> selector, text_candidate |-> NoneS, xpath_selector |-> NoneS]
    ELSE LET t0 == [clicked |-> FALSE, errors |-> <<>>, drv |-> <<"wait_for_selector">>]
             t1 == TextFallbacks(t0, selector, att)
             t2 == XPathFallback(t1, selector, att)
             t3 == RoleFallback(t2, selector, att)
         IN  [exc |-> IF t3.clicked THEN "" ELSE ClickFailed \o Join(t3.errors, "; "),
              result |-> IF t3.clicked THEN Result(TRUE, "clicked", "", FALSE) ELSE NoResult,
              drv |-> t3.drv, errors |-> t3.errors, selector |-> selector,
              text_candidate |-> IF HasEnginePrefix(selector) THEN NoneS
                                 ELSE Strip(Strip(selector, Whitespace), Quotes),
              xpath_selector |-> IF StartsWith(selector, "xpath=") THEN selector
                                 ELSE "xpath=" \o selector]

\* BrowserController._type. The driver rejects a None selector or text.
_type(selector, text, ok) ==
    IF selector = NoneS THEN Raises(DriverError, <<"wait_for_selector">>)
    ELSE IF text = NoneS THEN Raises(DriverError, <<"wait_for_selector", "click", "press", "fill">>)
    ELSE IF ok THEN Returns(Result(TRUE, "typed", "", FALSE),
                            <<"wait_for_selector", "click", "press", "fill">>)
    ELSE Raises(DriverError, <<"wait_for_selector">>)

_scrollUnsigned(direction, ok) ==
    [exc |-> IF ok THEN "" ELSE DriverError,
     result |-> IF ok THEN [Result(TRUE, direction, "", FALSE) EXCEPT !.value = ScrollStep]
                ELSE NoResult,
     drv |-> <<"evaluate">>, scrollBy |-> ScrollStep]

\* BrowserController._scroll; scrollBy is the amount in the window.scrollBy
\* call handed to page.evaluate.
_scroll(direction, ok) ==
    LET scroll_amount == IF direction = "down" THEN ScrollStep ELSE 0 - ScrollStep
    IN  [exc |-> IF ok THEN "" ELSE DriverError,
         result |-> IF ok
                    THEN [Result(TRUE, direction, "", FALSE) EXCEPT !.value = scroll_amount]
                    ELSE NoResult,
         drv |-> <<"evaluate">>, scrollBy |-> scroll_amount]

\* BrowserController._wait: asyncio.sleep(milliseconds / 1000), no driver
\* call; slept is the time asked of sleep, in milliseconds.
_wait(milliseconds) ==
    [exc |-> "",
     result |-> [Result(TRUE, "waited", "", FALSE) EXCEPT !.value = milliseconds],
     drv |-> <<>>, slept |-> milliseconds]

\* BrowserController._screenshot
_screenshot(ok) ==
    IF ok THEN Returns(Result(TRUE, "screenshot", "", TRUE), <<"screenshot">>)
    ELSE Raises(DriverError, <<"screenshot">>)

\* BrowserController._extract
_extract(extract_type, selector, ok) ==
    IF ok THEN Returns(Result(TRUE, "extracted", "", FALSE), <<"evaluate">>)
    ELSE Raises(DriverError, <<"evaluate">>)

\* What a call of a public operation did: it returned (a CommandResult for
\* execute_action) or raised, and the driver calls it made.
Returned(r, calls) == [raised |-> FALSE, error |-> "", result |-> r, drv |-> calls]
Raised(e, calls) == [raised |-> TRUE, error |-> e, result |-> NoResult, drv |-> calls]

\* The dispatch of execute_action on action.type.
Dispatch(action, ok) ==
    IF action.type = "navigate" THEN _navigate(action.url, ok)
    ELSE IF action.type = "click" THEN
        _click(action.selector, IF ok THEN ClickAttempts ELSE {})
    ELSE IF action.type = "type" THEN _type(action.selector, action.text, ok)
    ELSE IF action.type = "scroll" THEN
        _scroll(IF action.scroll_direction = NoneS THEN "down" ELSE action.scroll_direction, ok)
    ELSE IF action.type = "wait" THEN
        _wait(IF action.wait_time = NoneI \/ action.wait_time = 0
              THEN DefaultWaitMs ELSE action.wait_time)
    ELSE IF action.type = "screenshot" THEN _screenshot(ok)
    ELSE IF action.type = "extract" THEN
        _extract(IF action.extract_type = NoneS THEN "text" ELSE action.extract_type,
                 action.selector, ok)
    ELSE Returns(Result(FALSE, "", "Unknown action type", FALSE), <<>>)

execute_actionPropagates(action, pg, ok) ==
    IF pg = NoHandle THEN Raised("Browser not initialized", <<>>)
    ELSE LET d == Dispatch(action, ok)
         IN  IF d.exc # "" THEN Raised(d.exc, d.drv)
             ELSE Returned(d.result, d.drv)

execute_actionSilent(action, pg, ok) ==
    IF pg = NoHandle THEN Raised("Browser not initialized", <<>>)
    ELSE LET d == Dispatch(action, ok)
         IN  IF d.exc # "" THEN Returned(Result(FALSE, "", "", FALSE), d.drv)
             ELSE Returned(d.result, d.drv)

\* BrowserController.execute_action on a controller whose page handle is pg:
\* RuntimeError when there is no page, else the sub-operation's result, an
\* exception of the sub-operation turned into a failed CommandResult.
execute_action(action, pg, ok) ==
    IF pg = NoHandle THEN Raised("Browser not initialized", <<>>)
    ELSE LET d == Dispatch(action, ok)
         IN  IF d.exc # "" THEN Returned(Result(FALSE, "", d.exc, FALSE), d.drv)
             ELSE Returned(d.result, d.drv)

\* What a successful teardown call ends: closing a browser ends its page,
\* stopping a driver ends its browser and page. A resource is <<kind, h>>, h
\* the handle of the initialize() call that acquired it.
Ends(kind, h) ==
    IF kind = "page" THEN {<<"page", h>>}
    ELSE IF kind = "browser" THEN {<<"browser", h>>, <<"page", h>>}
    ELSE {<<"driver", h>>, <<"browser", h>>, <<"page", h>>}

closeForgetsPage(pw, br, pg, failAt) ==
    [pw |-> NoHandle, br |-> NoHandle, pg |-> pg, raised |-> FALSE, error |-> "",
     drv |-> (IF br # NoHandle THEN <<"browser.close">> ELSE <<>>)
             \o (IF pw # NoHandle THEN <<"playwright.stop">> ELSE <<>>),
     released |-> (IF br # NoHandle THEN Ends("browser", br) ELSE {})
                  \cup (IF pw # NoHandle THEN Ends("driver", pw) ELSE {})]

\* BrowserController.close on the handles pw (driver), br (browser), pg (page);
\* failAt is the teardown call that raises, if it is made. One try block holds
\* the three steps: the first exception leaves it and is re-raised. released:
\* the resources the calls that returned have ended.
close(pw, br, pg, failAt) ==
    LET s1 == IF pg = NoHandle THEN [pg |-> pg, exc |-> FALSE, drv |-> <<>>]
              ELSE IF failAt = "page" THEN [pg |-> pg, exc |-> TRUE, drv |-> <<"page.close">>]
              ELSE [pg |-> NoHandle, exc |-> FALSE, drv |-> <<"page.close">>]
        s2 == IF s1.exc \/ br = NoHandle THEN [br |-> br, exc |-> s1.exc, drv |-> s1.drv]
              ELSE IF failAt = "browser"
                   THEN [br |-> br, exc |-> TRUE, drv |-> Append(s1.drv, "browser.close")]
              ELSE [br |-> NoHandle, exc |-> FALSE, drv |-> Append(s1.drv, "browser.close")]
        s3 == IF s2.exc \/ pw = NoHandle THEN [pw |-> pw, exc |-> s2.exc, drv |-> s2.drv]
              ELSE IF failAt = "driver"
                   THEN [pw |-> pw, exc |-> TRUE, drv |-> Append(s2.drv, "playwright.stop")]
              ELSE [pw |-> NoHandle, exc |-> FALSE, drv |-> Append(s2.drv, "playwright.stop")]
    IN  [pw |-> s3.pw, br |-> s2.br, pg |-> s1.pg, raised |-> s3.exc,
         error |-> IF s3.exc THEN "close: " \o failAt ELSE "", drv |-> s3.drv,
         released |-> (IF pg # NoHandle /\ s1.pg = NoHandle THEN Ends("page", pg) ELSE {})
                      \cup (IF br # NoHandle /\ s2.br = NoHandle
                            THEN Ends("browser", br) ELSE {})
                      \cup (IF pw # NoHandle /\ s3.pw = NoHandle
                            THEN Ends("driver", pw) ELSE {})]

CloseFailures == {"none", "page", "browser", "driver"}
InitFailures == {"none", "start", "launch", "new_page", "viewport"}

\* The resources an initialize() call with handle h acquires before the step
\* failAt raises.
Acquired(h, failAt) ==
    (IF failAt = "start" THEN {} ELSE {<<"driver", h>>})
    \cup (IF failAt \in {"start", "launch"} THEN {} ELSE {<<"browser", h>>})
    \cup (IF failAt \in {"start", "launch", "new_page"} THEN {} ELSE {<<"page", h>>})

initializeNoTeardown(pw, br, pg, h, failAt, closeFailAt) ==
    LET pw1 == IF failAt = "start" THEN pw ELSE h
        br1 == IF failAt \in {"start", "launch"} THEN br ELSE h
        pg1 == IF failAt \in {"start", "launch", "new_page"} THEN pg ELSE h
    IN  [pw |-> pw1, br |-> br1, pg |-> pg1, raised |-> failAt # "none",
         error |-> IF failAt = "none" THEN "" ELSE "initialize: " \o failAt,
         drv |-> <<"start">>, closeRaised |-> FALSE,
         acquired |-> Acquired(h, failAt), released |-> {}]

\* BrowserController.initialize; h is the handle the driver hands out, failAt
\* the step that raises. On an exception close() runs, then the exception is
\* re-raised, unless close() raised one of its own.
initialize(pw, br, pg, h, failAt, closeFailAt) ==
    LET pw1 == IF failAt = "start" THEN pw ELSE h
        br1 == IF failAt \in {"start", "launch"} THEN br ELSE h
        pg1 == IF failAt \in {"start", "launch", "new_page"} THEN pg ELSE h
        made == IF failAt = "start" THEN <<"start">>
                ELSE IF failAt = "launch" THEN <<"start", "launch">>
                ELSE IF failAt = "new_page" THEN <<"start", "launch", "new_page">>
                ELSE <<"start", "launch", "new_page", "set_viewport_size">>
        c == close(pw1, br1, pg1, closeFailAt)
    IN  IF failAt = "none"
        THEN [pw |-> pw1, br |-> br1, pg |-> pg1, raised |-> FALSE, error |-> "",
              drv |-> made, closeRaised |-> FALSE,
              acquired |-> Acquired(h, failAt), released |-> {}]
        ELSE [pw |-> c.pw, br |-> c.br, pg |-> c.pg, raised |-> TRUE,
              error |-> IF c.raised THEN c.error ELSE "initialize: " \o failAt,
              drv |-> made \o c.drv, closeRaised |-> c.raised,
              acquired |-> Acquired(h, failAt), released |-> c.released]

\* What page.url holds on a live page.
PageUrls == {"about:blank", "https://example.com"}

\* BrowserController.get_current_url
get_current_url(pg, url) == IF pg # NoHandle THEN url ELSE ""

get_page_contentRaises(pg, ok) ==
    [raised |-> pg # NoHandle /\ ~ok, failed |-> pg # NoHandle /\ ~ok,
     content |-> IF pg # NoHandle /\ ok THEN "<html>" ELSE ""]

\* BrowserController.get_page_content: "" without a page and when
\* page.content() raises (ok = FALSE); it never raises itself.
get_page_content(pg, ok) ==
    [raised |-> FALSE, failed |-> pg # NoHandle /\ ~ok,
     content |-> IF pg # NoHandle /\ ok THEN "<html>" ELSE ""]

\* ------------------------------------------------------------------ state
VARIABLES
    legacy,      \* the interpreter's Enum containment raises on a non-member
    playwright,  \* BrowserController.playwright (NoHandle: None)
    browser,     \* BrowserController.browser
    page,        \* BrowserController.page
    launches,    \* handles handed out so far
    ctl,         \* lifecycle: what the last initialize()/close() call did
    ret,         \* what the last call of a controller operation did
    pc,          \* execute_task's position
    task,        \* the AutomationTask of the execute_task call in flight
    idx,         \* iterations of the action loop completed
    gen,         \* what generate_web_actions did in the call in flight
    calls,       \* the execute_action calls of the call in flight
    context,     \* the browser context execute_task read for the LLM call
    planIn,      \* generate_web_actions / _validate_actions taken alone: input
    planOut,     \*   and outcome
    unit,        \* one function of the program taken alone: input and outcome
    app          \* the command-line process (main.py)

ctlVars == <<playwright, browser, page, launches, ctl>>
taskVars == <<pc, task, idx, gen, calls, context>>
planVars == <<planIn, planOut>>
sideVars == <<planIn, planOut, unit, app>>
vars == <<legacy, playwright, browser, page, launches, ctl, ret, pc, task, idx, gen,
          calls, context, planIn, planOut, unit, app>>

NoAction == Act("none", NoneS, NoneS, NoneS, NoneI, NoneS, NoneS)
NoCall == [op |-> "none", action |-> NoAction, raised |-> FALSE, error |-> "",
           result |-> NoResult, drv |-> <<>>, fail |-> "none", closeFail |-> "none",
           was |-> "none"]
\* The call of execute_action(a) that did r.
ActionCall(a, r) ==
    [op |-> "execute_action", action |-> a, raised |-> r.raised, error |-> r.error,
     result |-> r.result, drv |-> r.drv, fail |-> "none", closeFail |-> "none",
     was |-> "none"]
\* The call of initialize() or close() that did r; f and cf are the
\* initialization step and the teardown step that raised, w the lifecycle
\* state the call found.
LifecycleCall(o, r, f, cf, w) ==
    [op |-> o, action |-> NoAction, raised |-> r.raised, error |-> r.error,
     result |-> NoResult, drv |-> r.drv, fail |-> f, closeFail |-> cf, was |-> w]

NoTask == [status |-> "none", actions |-> <<>>, results |-> <<>>]
NoPlan == [kind |-> "none", items |-> <<>>]
NoOut == [op |-> "none", raised |-> FALSE, error |-> "", actions |-> <<>>]
NoUnit == [fn |-> "none"]
NoApp == [pc |-> "none"]
SideInit == planIn = NoPlan /\ planOut = NoOut /\ unit = NoUnit /\ app = NoApp
Out(o, r) == [op |-> o, raised |-> r.raised, error |-> r.error, actions |-> r.actions]

ControllerInit ==
    /\ playwright = NoHandle /\ browser = NoHandle /\ page = NoHandle
    /\ launches = 0 /\ ctl = "Uninitialized" /\ ret = NoCall
\* current_url and page_content of execute_task, and the controller calls
\* that produced them; failed: page.content() raised.
NoContext == [url |-> NoneS, content |-> NoneS, failed |-> FALSE, log |-> <<>>]
TaskInit ==
    /\ pc = "idle" /\ task = NoTask /\ idx = 0 /\ gen = NoOut /\ calls = <<>>
    /\ context = NoContext

Init ==
    /\ legacy \in BOOLEAN
    /\ ControllerInit /\ TaskInit
    /\ SideInit

\* ------------------------------------------------- controller operations
\* await browser_controller.initialize()
Initialize ==
    /\ pc = "idle" /\ launches < MaxLaunch
    /\ \E f \in InitFailures, cf \in CloseFailures :
         LET r == initialize(playwright, browser, page, launches + 1, f, cf)
         IN  /\ playwright' = r.pw /\ browser' = r.br /\ page' = r.pg
             /\ launches' = launches + 1
             /\ ctl' = IF r.raised THEN "InitFailed" ELSE "Initialized"
             /\ ret' = LifecycleCall("initialize", r, f,
                                     IF r.closeRaised THEN cf ELSE "none", ctl)
    /\ UNCHANGED <<legacy, taskVars, sideVars>>

\* await browser_controller.close()
Close ==
    /\ pc = "idle"
    /\ \E cf \in CloseFailures :
         LET r == close(playwright, browser, page, cf)
         IN  /\ playwright' = r.pw /\ browser' = r.br /\ page' = r.pg
             /\ ctl' = IF r.raised THEN "CloseFailed" ELSE "Closed"
             /\ ret' = LifecycleCall("close", r, "none", IF r.raised THEN cf ELSE "none",
                                     ctl)
    /\ UNCHANGED <<legacy, launches, taskVars, sideVars>>

\* await browser_controller.execute_action(action), called on its own
ExecuteAction ==
    /\ pc = "idle"
    /\ \E action \in WebActions, ok \in BOOLEAN :
         ret' = ActionCall(action, execute_action(action, page, ok))
    /\ UNCHANGED <<legacy, ctlVars, taskVars, sideVars>>

\* ------------------------------------------------------------ execute_task
HandlerNoResult(t, error_msg) == [t EXCEPT !.status = "failed"]

HandlerKeepsStatus(t, error_msg) ==
    [t EXCEPT !.results = Append(@, Result(FALSE, "", error_msg, FALSE))]

\* The except clause of execute_task: status failed, one synthetic result.
Handler(t, error_msg) ==
    [t EXCEPT !.status = "failed",
              !.results = Append(@, Result(FALSE, "", error_msg, FALSE))]

\* The status execute_task sets after the loop.
FinalStatus(results) ==
    LET successful_actions == Cardinality({i \in 1..Len(results) : results[i].success})
        total_actions == Len(results)
    IN  IF successful_actions = total_actions THEN "completed"
        ELSE IF successful_actions > 0 THEN "completed"
        ELSE "failed"

LoopDoneBreakOnFailure(t, i) ==
    i >= Len(t.actions) \/ (i > 0 /\ ~t.results[i].success)

\* for i, action in enumerate(actions): the loop is over after i iterations
LoopDone(t, i) == i >= Len(t.actions)

LoopActionFromEnd(t, i) == t.actions[Len(t.actions) - i]

\* ... and the action of the iteration after the first i
LoopAction(t, i) == t.actions[i + 1]

\* task = AutomationTask(id, prompt, status=PENDING)
TaskCreate ==
    /\ pc = "idle"
    /\ pc' = "created"
    /\ task' = [status |-> "pending", actions |-> <<>>, results |-> <<>>]
    /\ idx' = 0 /\ gen' = NoOut /\ calls' = <<>> /\ ret' = NoCall
    /\ context' = NoContext
    /\ UNCHANGED <<legacy, ctlVars, sideVars>>

\* task.status = TaskStatus.RUNNING
TaskRun ==
    /\ pc = "created"
    /\ pc' = "context"
    /\ task' = [task EXCEPT !.status = "running"]
    /\ UNCHANGED <<legacy, ctlVars, ret, idx, gen, calls, context, sideVars>>

\* current_url = await get_current_url(); page_content = await
\* get_page_content() if current_url else None. url is what page.url holds, ok
\* whether page.content() returns. An exception would go to the except clause.
ReadContext ==
    /\ pc = "context"
    /\ \E url \in PageUrls, ok \in BOOLEAN :
         LET current_url == get_current_url(page, url)
             fetch == ~Falsy(current_url)
             c == get_page_content(page, ok)
             log == IF fetch THEN <<"get_current_url", "get_page_content">>
                    ELSE <<"get_current_url">>
         IN  IF fetch /\ c.raised
             THEN /\ task' = Handler(task, DriverError) /\ pc' = "handled"
                  /\ context' = [url |-> current_url, content |-> NoneS,
                                 failed |-> TRUE, log |-> log]
             ELSE /\ task' = task /\ pc' = "generate"
                  /\ context' = [url |-> current_url,
                                 content |-> IF fetch THEN c.content ELSE NoneS,
                                 failed |-> fetch /\ c.failed, log |-> log]
    /\ UNCHANGED <<legacy, ctlVars, ret, idx, gen, calls, sideVars>>

\* actions = await llm_client.generate_web_actions(...); task.actions = actions.
\* An exception goes to the except clause, and the task is returned.
\* current_url and page_content are not used after the call.
Generate ==
    /\ pc = "generate"
    /\ context' = NoContext
    /\ \E reply \in Replies :
         LET g == generate_web_actions(reply, legacy)
         IN  /\ gen' = Out("generate", g)
             /\ IF g.raised
                THEN task' = Handler(task, g.error) /\ pc' = "handled"
                ELSE task' = [task EXCEPT !.actions = g.actions] /\ pc' = "loop"
    /\ UNCHANGED <<legacy, ctlVars, ret, idx, calls, sideVars>>

\* result = await browser_controller.execute_action(action). Its exception
\* (no page) goes to the except clause, and the task is returned.
StepCall ==
    /\ pc = "loop" /\ ~LoopDone(task, idx)
    /\ \E ok \in BOOLEAN :
         LET action == LoopAction(task, idx)
             c == ActionCall(action, execute_action(action, page, ok))
         IN  /\ calls' = Append(calls, c)
             /\ ret' = c
             /\ IF c.raised
                THEN task' = Handler(task, c.error) /\ pc' = "handled"
                ELSE task' = task /\ pc' = "append"
    /\ UNCHANGED <<legacy, ctlVars, idx, gen, context, sideVars>>

\* task.results.append(result), then the next iteration
StepAppend ==
    /\ pc = "append"
    /\ task' = [task EXCEPT !.results = Append(@, ret.result)]
    /\ idx' = idx + 1
    /\ pc' = "loop"
    /\ UNCHANGED <<legacy, ctlVars, ret, gen, calls, context, sideVars>>

\* The loop is over: the status is set from the results.
Finish ==
    /\ pc = "loop" /\ LoopDone(task, idx)
    /\ task' = [task EXCEPT !.status = FinalStatus(task.results)]
    /\ pc' = "finished"
    /\ UNCHANGED <<legacy, ctlVars, ret, idx, gen, calls, context, sideVars>>

\* return task (after the loop, or after the except clause)
AtReturn == pc \in {"finished", "handled"}

TaskReturn ==
    /\ AtReturn
    /\ pc' = "idle" /\ task' = NoTask /\ idx' = 0 /\ gen' = NoOut /\ calls' = <<>>
    /\ ret' = NoCall /\ context' = NoContext
    /\ UNCHANGED <<legacy, ctlVars, sideVars>>

Next ==
    \/ Initialize \/ Close \/ ExecuteAction
    \/ TaskCreate \/ TaskRun \/ ReadContext \/ Generate
    \/ StepCall \/ StepAppend \/ Finish \/ TaskReturn

Spec == Init /\ [][Next]_vars

\* ------------------------------------- the LLM client's functions, alone
\* generate_web_actions on any reply, _validate_actions on any list of
\* constructed WebActions.
InitPlan ==
    /\ legacy \in BOOLEAN
    /\ ControllerInit /\ TaskInit
    /\ planIn \in Replies /\ planOut = NoOut /\ unit = NoUnit /\ app = NoApp

PlanGenerate ==
    /\ planOut.op = "none"
    /\ planOut' = Out("generate", generate_web_actions(planIn, legacy))
    /\ UNCHANGED <<legacy, ctlVars, ret, taskVars, planIn, unit, app>>

PlanValidate ==
    /\ planOut.op = "none" /\ planIn.kind = "array"
    /\ \A i \in 1..Len(planIn.items) : Constructs(planIn.items[i])
    /\ LET v == _validate_actions(planIn.items, legacy)
       IN  planOut' = [op |-> "validate", raised |-> v.raised,
                       error |-> IF v.raised THEN "TypeError" ELSE "",
                       actions |-> v.actions]
    /\ UNCHANGED <<legacy, ctlVars, ret, taskVars, planIn, unit, app>>

NextPlan == PlanGenerate \/ PlanValidate

SpecPlan == InitPlan /\ [][NextPlan]_vars

\* ----------------------------------------------------------- config
DigitChars == {"0", "1", "2", "3", "4", "5", "6", "7", "8", "9"}
DigitValue(c) ==
    CHOOSE d \in 0..9 : <<"0", "1", "2", "3", "4", "5", "6", "7", "8", "9">>[d + 1] = c

RECURSIVE DigitsValue(_)
DigitsValue(s) ==
    IF Len(s) = 0 THEN 0
    ELSE DigitsValue(SubSeq(s, 1, Len(s) - 1)) * 10 + DigitValue(SubSeq(s, Len(s), Len(s)))

\* int(text): surrounding whitespace is dropped and one sign allowed, the rest
\* has to be decimal digits, else ValueError (ok = FALSE).
int(text) ==
    LET t == Strip(text, Whitespace)
        signed == Len(t) > 0 /\ SubSeq(t, 1, 1) \in {"+", "-"}
        body == IF signed THEN SubSeq(t, 2, Len(t)) ELSE t
        isInt == Len(body) > 0 /\ \A i \in 1..Len(body) : SubSeq(body, i, i) \in DigitChars
    IN  [ok |-> isInt,
         value |-> IF ~isInt THEN 0
                   ELSE IF signed /\ SubSeq(t, 1, 1) = "-" THEN 0 - DigitsValue(body)
                   ELSE DigitsValue(body)]

\* os.getenv(name, default) on the environment env; NoneS: the variable is
\* not set.
getenv(env, name, default) == IF env[name] = NoneS THEN default ELSE env[name]

\* A Config with its BrowserConfig and LoggingConfig fields.
MakeConfig(key, h, t, w, ht, lvl) ==
    [openai_api_key |-> key, headless |-> h, timeout |-> t, viewport_width |-> w,
     viewport_height |-> ht, level |-> lvl]

DefaultConfig == MakeConfig("", FALSE, 30000, 1920, 1080, "INFO")

\* Config.from_env: the first int() that fails raises ValueError out of
\* from_env.
from_env(env) ==
    LET timeout == int(getenv(env, "BROWSER_TIMEOUT", "30000"))
        viewport_width == int(getenv(env, "VIEWPORT_WIDTH", "1920"))
        viewport_height == int(getenv(env, "VIEWPORT_HEIGHT", "1080"))
    IN  IF ~timeout.ok \/ ~viewport_width.ok \/ ~viewport_height.ok
        THEN [raised |-> TRUE, error |-> "ValueError", config |-> DefaultConfig]
        ELSE [raised |-> FALSE, error |-> "",
              config |-> MakeConfig(getenv(env, "OPENAI_API_KEY", ""),
                                    env["NODE_ENV"] = "production",
                                    timeout.value, viewport_width.value,
                                    viewport_height.value,
                                    getenv(env, "LOG_LEVEL", "INFO"))]

MissingCredential == "OPENAI_API_KEY environment variable is required"

validate_configBlank(config) ==
    IF Strip(config.openai_api_key, Whitespace) = ""
    THEN [raised |-> TRUE, error |-> MissingCredential, config |-> config]
    ELSE [raised |-> FALSE, error |-> "", config |-> config]

\* validate_config: ValueError when the key is falsy; config is what the
\* object holds afterwards.
validate_config(config) ==
    IF Falsy(config.openai_api_key)
    THEN [raised |-> TRUE, error |-> MissingCredential, config |-> config]
    ELSE [raised |-> FALSE, error |-> "", config |-> config]

\* ------------------------------------------------- single operations
\* One call of one operation on inputs drawn from small pools: unit holds the
\* call (fn, its arguments, pc = "call") and then what it returned (out).
SelectorPool ==
    {"#btn", "Submit", " 'Submit' ", "//button", "text=Submit", "xpath=//button", "css=.btn"}

NoReturn == [exc |-> "", result |-> NoResult, drv |-> <<>>]

ClickCalls ==
    [fn : {"_click"}, pc : {"call"}, selector : SelectorPool,
     att : SUBSET ClickAttempts, out : {NoReturn}]

UrlPool ==
    {"example.com", "http://example.com", "https://example.com", "HTTP://example.com",
     "http:/example.com", "ftp://example.com", "//example.com", "https://", "http", "",
     " https://example.com", "https://https://example.com"}

NavigateCalls ==
    [fn : {"_navigate"}, pc : {"call"}, url : UrlPool, ok : BOOLEAN, out : {NoReturn}]

Environments ==
    [OPENAI_API_KEY : {NoneS, "", "sk-test"},
     NODE_ENV : {NoneS, "production", "development"},
     BROWSER_TIMEOUT : {NoneS, "5000", " 42 ", "-1", "abc"},
     VIEWPORT_WIDTH : {NoneS, "1280", "12.5"},
     VIEWPORT_HEIGHT : {NoneS, "720", ""},
     LOG_LEVEL : {NoneS, "DEBUG"}]

FromEnvCalls == [fn : {"from_env"}, pc : {"call"}, env : Environments, out : {NoReturn}]

Configs ==
    {MakeConfig(key, h, 30000, 1920, 1080, "INFO") :
        key \in {"", " ", "0", "sk-test"}, h \in BOOLEAN}

ValidateCalls == [fn : {"validate_config"}, pc : {"call"}, config : Configs, out : {NoReturn}]

\* Scroll and wait actions as WebAction builds them.
ScrollWaitActions ==
    {Act("scroll", NoneS, NoneS, NoneS, NoneI, sd, NoneS) : sd \in {NoneS, "up", "down"}}
    \cup {Act("wait", NoneS, NoneS, NoneS, w, NoneS, NoneS) : w \in {NoneI, 0, 1, 250, 1000, 2000}}

ExecuteCalls ==
    [fn : {"execute_action"}, pc : {"call"}, action : ScrollWaitActions,
     pg : {NoHandle, 1}, ok : BOOLEAN, sub : {NoReturn}, out : {NoReturn}]

UnitCalls ==
    ClickCalls \cup NavigateCalls \cup FromEnvCalls \cup ValidateCalls \cup ExecuteCalls

InitUnit ==
    /\ legacy = FALSE
    /\ ControllerInit /\ TaskInit
    /\ planIn = NoPlan /\ planOut = NoOut /\ app = NoApp
    /\ unit \in UnitCalls

UnitRest == <<legacy, ctlVars, ret, taskVars, planIn, planOut, app>>

Click ==
    /\ unit.fn = "_click" /\ unit.pc = "call"
    /\ unit' = [unit EXCEPT !.pc = "done", !.out = _click(unit.selector, unit.att)]
    /\ UNCHANGED UnitRest

Navigate ==
    /\ unit.fn = "_navigate" /\ unit.pc = "call"
    /\ unit' = [unit EXCEPT !.pc = "done", !.out = _navigate(unit.url, unit.ok)]
    /\ UNCHANGED UnitRest

FromEnv ==
    /\ unit.fn = "from_env" /\ unit.pc = "call"
    /\ unit' = [unit EXCEPT !.pc = "done", !.out = from_env(unit.env)]
    /\ UNCHANGED UnitRest

ValidateConfig ==
    /\ unit.fn = "validate_config" /\ unit.pc = "call"
    /\ unit' = [unit EXCEPT !.pc = "done", !.out = validate_config(unit.config)]
    /\ UNCHANGED UnitRest

\* execute_action on a scroll or wait action; sub is what the sub-operation
\* did when there is a page.
Execute ==
    /\ unit.fn = "execute_action" /\ unit.pc = "call"
    /\ unit' = [unit EXCEPT
          !.pc = "done",
          !.sub = IF unit.pg = NoHandle THEN NoReturn ELSE Dispatch(unit.action, unit.ok),
          !.out = execute_action(unit.action, unit.pg, unit.ok)]
    /\ UNCHANGED UnitRest

NextUnit == Click \/ Navigate \/ FromEnv \/ ValidateConfig \/ Execute

SpecUnit == InitUnit /\ [][NextUnit]_vars

\* ------------------------------------------------------------------ CLI
\* main.run_app with the controller of its command parser. app holds the
\* position in run_app (pc), DeskGPT.running, the credential and the --command
\* option, the calls made so far (log), the argument of the last execute_task
\* call (prompt), the exception on its way out of run_app (exc), how the run
\* ended (ended) and the exit status. execute_task is a call and a return
\* here; its own steps are the actions of Spec.
MaxInputs == 2

UpperCase == <<"A", "B", "C", "D", "E", "F", "G", "H", "I", "J", "K", "L", "M",
               "N", "O", "P", "Q", "R", "S", "T", "U", "V", "W", "X", "Y", "Z">>
LowerCase == <<"a", "b", "c", "d", "e", "f", "g", "h", "i", "j", "k", "l", "m",
               "n", "o", "p", "q", "r", "s", "t", "u", "v", "w", "x", "y", "z">>
LowerChar(c) ==
    IF \E i \in 1..26 : UpperCase[i] = c
    THEN LowerCase[CHOOSE i \in 1..26 : UpperCase[i] = c]
    ELSE c

RECURSIVE Lower(_)
\* str.lower()
Lower(s) ==
    IF Len(s) = 0 THEN ""
    ELSE LowerChar(SubSeq(s, 1, 1)) \o Lower(SubSeq(s, 2, Len(s)))

\* str.isspace()
IsSpace(s) == Len(s) > 0 /\ \A i \in 1..Len(s) : SubSeq(s, i, i) \in Whitespace

ClassifyUntrimmed(prompt) ==
    IF Falsy(prompt) \/ IsSpace(prompt) THEN "blank"
    ELSE IF Lower(prompt) \in {"exit", "quit", "q"} THEN "exit"
    ELSE IF Lower(prompt) = "help" THEN "help"
    ELSE "task"

\* run_interactive, what an input line is taken for.
Classify(prompt) ==
    LET command == Lower(Strip(prompt, Whitespace))
    IN  IF Falsy(prompt) \/ IsSpace(prompt) THEN "blank"
        ELSE IF command \in {"exit", "quit", "q"} THEN "exit"
        ELSE IF command = "help" THEN "help"
        ELSE "task"

InputLines ==
    {"exit", " Quit ", "Q", "help", " HELP", "", "  ", "go to example.com", "exit now"}

DeskGPT_initializeUnchecked(key, pw, br, pg, h, f, cf) ==
    LET r == initialize(pw, br, pg, h, f, cf)
    IN  [exit |-> r.raised, log |-> <<"initialize">>, called |-> TRUE, r |-> r]

\* DeskGPT.initialize: validate_config, then the command parser's initialize;
\* an exception of either becomes sys.exit(1) (exit). called: the
\* controller's initialize() was called, and did r.
DeskGPT_initialize(key, pw, br, pg, h, f, cf) ==
    LET v == validate_config(MakeConfig(key, FALSE, 30000, 1920, 1080, "INFO"))
        r == initialize(pw, br, pg, h, f, cf)
    IN  IF v.raised
        THEN [exit |-> TRUE, log |-> <<"validate_config">>, called |-> FALSE, r |-> r]
        ELSE [exit |-> r.raised, log |-> <<"validate_config", "initialize">>,
              called |-> TRUE, r |-> r]

DeskGPT_cleanupPropagates(pw, br, pg, cf) ==
    LET c == close(pw, br, pg, cf)
    IN  [raised |-> c.raised, reported |-> FALSE, c |-> c]

\* DeskGPT.cleanup: close(), an exception of it caught and reported.
DeskGPT_cleanup(pw, br, pg, cf) ==
    LET c == close(pw, br, pg, cf)
    IN  [raised |-> FALSE, reported |-> c.raised, c |-> c]

\* The exit status main ends with: a SystemExit carries 1, any other
\* exception out of asyncio.run becomes sys.exit(1).
ExitStatus(exc) == IF exc = "" THEN 0 ELSE 1

AppStart(key, command) ==
    [pc |-> "run_app", key |-> key, command |-> command, running |-> TRUE,
     log |-> <<>>, prompt |-> NoneS, line |-> NoneS, inputs |-> 0, exc |-> "",
     ended |-> "none", sigAt |-> "none", reported |-> FALSE,
     cleanupError |-> FALSE, status |-> NoneI]

InitCli ==
    /\ legacy = FALSE
    /\ ControllerInit /\ TaskInit
    /\ planIn = NoPlan /\ planOut = NoOut /\ unit = NoUnit
    /\ \E key \in {"", "sk-test"}, command \in {NoneS, "", "take a screenshot"} :
         app = AppStart(key, command)

CliRest == <<legacy, taskVars, planIn, planOut, unit>>

\* signal_handler: SIGINT or SIGTERM, at any point of run_app.
Signal ==
    /\ app.pc \notin {"none", "exit"}
    /\ app' = [app EXCEPT !.running = FALSE, !.reported = TRUE, !.sigAt = app.pc]
    /\ UNCHANGED <<ctlVars, ret, CliRest>>

\* await app.initialize()
AppInitialize ==
    /\ app.pc = "run_app"
    /\ \E f \in InitFailures, cf \in CloseFailures :
         LET d == DeskGPT_initialize(app.key, playwright, browser, page, launches + 1, f, cf)
         IN  /\ IF d.called
                THEN /\ playwright' = d.r.pw /\ browser' = d.r.br /\ page' = d.r.pg
                     /\ launches' = launches + 1
                     /\ ctl' = IF d.r.raised THEN "InitFailed" ELSE "Initialized"
                     /\ ret' = LifecycleCall("initialize", d.r, f,
                                             IF d.r.closeRaised THEN cf ELSE "none", ctl)
                ELSE UNCHANGED <<ctlVars, ret>>
             /\ app' = [app EXCEPT
                   !.log = @ \o d.log,
                   !.exc = IF d.exit THEN "SystemExit" ELSE @,
                   !.ended = IF d.exit THEN "init_failed" ELSE @,
                   !.pc = IF d.exit THEN "cleanup"
                          ELSE IF ~Falsy(app.command) THEN "command" ELSE "loop"]
    /\ UNCHANGED CliRest

\* run_app with --command: the call of execute_task(command).
CommandTask ==
    /\ app.pc = "command"
    /\ app' = [app EXCEPT !.pc = "task", !.log = Append(@, "execute_task"),
                          !.prompt = app.command]
    /\ UNCHANGED <<ctlVars, ret, CliRest>>

\* execute_task returns: to run_app in command mode, to the loop otherwise.
CliTaskEnd ==
    /\ app.pc = "task"
    /\ app' = [app EXCEPT
          !.pc = IF ~Falsy(app.command) THEN "cleanup" ELSE "loop",
          !.ended = IF ~Falsy(app.command) THEN "command_done" ELSE @]
    /\ UNCHANGED <<ctlVars, ret, CliRest>>

\* while self.running
LoopTest ==
    /\ app.pc = "loop"
    /\ app' = [app EXCEPT !.pc = IF app.running THEN "input" ELSE "cleanup",
                          !.ended = IF app.running THEN @ ELSE "flag"]
    /\ UNCHANGED <<ctlVars, ret, CliRest>>

\* console.input returns a line: one pass through the loop body.
ReadLine ==
    /\ app.pc = "input" /\ app.inputs < MaxInputs
    /\ \E prompt \in InputLines :
         LET kind == Classify(prompt)
         IN  app' = [app EXCEPT
                !.inputs = @ + 1, !.line = prompt,
                !.log = IF kind = "help" THEN Append(@, "show_help")
                        ELSE IF kind = "task" THEN Append(@, "execute_task")
                        ELSE @,
                !.prompt = IF kind = "task" THEN prompt ELSE @,
                !.ended = IF kind = "exit" THEN "exit_word" ELSE @,
                !.pc = IF kind = "exit" THEN "cleanup"
                       ELSE IF kind = "task" THEN "task"
                       ELSE "loop"]
    /\ UNCHANGED <<ctlVars, ret, CliRest>>

\* console.input raises EOFError: break.
ReadEOF ==
    /\ app.pc = "input" /\ app.inputs < MaxInputs
    /\ app' = [app EXCEPT !.inputs = @ + 1, !.ended = "eof", !.pc = "cleanup"]
    /\ UNCHANGED <<ctlVars, ret, CliRest>>

\* console.input raises another exception: it leaves run_interactive.
ReadError ==
    /\ app.pc = "input" /\ app.inputs < MaxInputs
    /\ app' = [app EXCEPT !.inputs = @ + 1, !.ended = "error", !.exc = "OSError",
                          !.pc = "cleanup"]
    /\ UNCHANGED <<ctlVars, ret, CliRest>>

\* finally: await app.cleanup()
Cleanup ==
    /\ app.pc = "cleanup"
    /\ \E cf \in CloseFailures :
         LET d == DeskGPT_cleanup(playwright, browser, page, cf)
         IN  /\ playwright' = d.c.pw /\ browser' = d.c.br /\ page' = d.c.pg
             /\ ctl' = IF d.c.raised THEN "CloseFailed" ELSE "Closed"
             /\ ret' = LifecycleCall("close", d.c, "none",
                                     IF d.c.raised THEN cf ELSE "none", ctl)
             /\ app' = [app EXCEPT !.pc = "main", !.log = Append(@, "close"),
                                   !.cleanupError = d.reported,
                                   !.exc = IF d.raised THEN "Exception" ELSE @]
    /\ UNCHANGED <<launches, CliRest>>

\* main after asyncio.run: the process exits.
Exit ==
    /\ app.pc = "main"
    /\ app' = [app EXCEPT !.pc = "exit", !.status = ExitStatus(app.exc)]
    /\ UNCHANGED <<ctlVars, ret, CliRest>>

NextCli ==
    \/ Signal \/ AppInitialize \/ CommandTask \/ CliTaskEnd \/ LoopTest
    \/ ReadLine \/ ReadEOF \/ ReadError \/ Cleanup \/ Exit

SpecCli == InitCli /\ [][NextCli]_vars

\* ------------------------------------------------------------ lifecycle
\* initialize() and close() on one controller, with the resources that are
\* open in the browser driver: unit.open holds every driver, browser and page
\* acquired and not ended.
InitLifecycle ==
    /\ legacy = FALSE
    /\ ControllerInit /\ TaskInit
    /\ planIn = NoPlan /\ planOut = NoOut /\ app = NoApp
    /\ unit = [fn |-> "lifecycle", open |-> {}]

LifecycleRest == <<legacy, taskVars, planIn, planOut, app>>

\* await browser_controller.initialize()
LcInitialize ==
    /\ launches < MaxLaunch
    /\ \E f \in InitFailures, cf \in CloseFailures :
         LET r == initialize(playwright, browser, page, launches + 1, f, cf)
         IN  /\ playwright' = r.pw /\ browser' = r.br /\ page' = r.pg
             /\ launches' = launches + 1
             /\ ctl' = IF r.raised THEN "InitFailed" ELSE "Initialized"
             /\ ret' = LifecycleCall("initialize", r, f,
                                     IF r.closeRaised THEN cf ELSE "none", ctl)
             /\ unit' = [unit EXCEPT !.open = (@ \cup r.acquired) \ r.released]
    /\ UNCHANGED LifecycleRest

\* await browser_controller.close()
LcClose ==
    /\ \E cf \in CloseFailures :
         LET r == close(playwright, browser, page, cf)
         IN  /\ playwright' = r.pw /\ browser' = r.br /\ page' = r.pg
             /\ ctl' = IF r.raised THEN "CloseFailed" ELSE "Closed"
             /\ ret' = LifecycleCall("close", r, "none", IF r.raised THEN cf ELSE "none",
                                     ctl)
             /\ unit' = [unit EXCEPT !.open = @ \ r.released]
    /\ UNCHANGED <<launches, LifecycleRest>>

NextLifecycle == LcInitialize \/ LcClose

SpecLifecycle == InitLifecycle /\ [][NextLifecycle]_vars

\* ================================================================= claims
Range(s) == {s[i] : i \in 1..Len(s)}
SomeSucceeded(results) == \E i \in 1..Len(results) : results[i].success

\* C1 (as claimed): when execute_task leaves its action loop without an
\* exception, the status is completed if and only if at least one result has
\* success = true; with no successful result (an empty plan included) it is
\* failed.
C1_CompletedIffSomeSucceeded ==
    pc = "finished" =>
        /\ task.status = "completed" <=> SomeSucceeded(task.results)
        /\ ~SomeSucceeded(task.results) => task.status = "failed"

\* C2: when plan generation fails, execute_task still returns the task: status
\* failed, no actions, exactly one result, which is failed and carries the
\* failure's description, and execute_action was never called.
C2_GenerationFailureHandled ==
    gen.raised =>
        /\ pc = "handled"
        /\ task.status = "failed"
        /\ task.actions = <<>>
        /\ Len(task.results) = 1
        /\ ~task.results[1].success
        /\ task.results[1].error = gen.error /\ gen.error # ""
        /\ calls = <<>>

C2_Witness ==
    /\ pc = "handled" /\ gen.raised
    /\ gen.error = "Invalid JSON response from OpenAI"
    /\ page # NoHandle

\* C3: on a controller with a page, every action of the plan is passed to
\* execute_action exactly once, in plan order, the next one only after the
\* result of the one before has been appended, whatever results failed; no
\* exception reaches the except clause, and on return there are as many
\* results as actions.
C3_EveryActionOnceInOrder ==
    (page # NoHandle /\ gen.op = "generate" /\ ~gen.raised) =>
        /\ pc \in {"loop", "append", "finished"}
        /\ Len(calls) <= Len(task.actions)
        /\ \A i \in 1..Len(calls) : calls[i].action = task.actions[i]
        /\ Len(calls) = Len(task.results) + (IF pc = "append" THEN 1 ELSE 0)
        /\ pc = "finished" =>
              Len(calls) = Len(task.actions) /\ Len(task.results) = Len(task.actions)

C3_Witness ==
    /\ pc = "finished" /\ page # NoHandle
    /\ Len(task.actions) = MaxPlan
    /\ ~task.results[1].success /\ task.results[MaxPlan].success

\* results[i] is the result of executing actions[i]
ResultOfAction(i) ==
    /\ i <= Len(calls) /\ i <= Len(task.actions)
    /\ calls[i].action = task.actions[i]
    /\ ~calls[i].raised
    /\ task.results[i] = calls[i].result

\* C4 (as claimed): at every point of execute_task there are no more results
\* than actions, and every results[i] is the result of executing actions[i].
C4_ResultsMatchActions ==
    pc # "idle" =>
        /\ Len(task.results) <= Len(task.actions)
        /\ \A i \in 1..Len(task.results) : ResultOfAction(i)

\* C4 (amended): the results the loop appended are, in order, the results of
\* executing the first actions of the plan, and there are no more of them than
\* actions; the only further result is the one failed result the except clause
\* appends last, which carries the exception's description and belongs to no
\* action, so that len(results) <= len(actions) + 1.
C4_LoopResultsMatchActions ==
    pc # "idle" =>
        /\ idx <= Len(task.actions)
        /\ \A i \in 1..idx : ResultOfAction(i)
        /\ Len(task.results) = idx + (IF pc = "handled" THEN 1 ELSE 0)
        /\ pc = "handled" =>
              /\ ~task.results[idx + 1].success
              /\ task.results[idx + 1].error =
                    (IF gen.raised THEN gen.error ELSE calls[idx + 1].error)

C4_Witness ==
    /\ pc = "handled" /\ ~gen.raised
    /\ Len(task.actions) = MaxPlan /\ Len(task.results) = 1

\* The required-field table: navigate url; click selector; type selector and
\* text; scroll scrollDirection in {up, down}; extract extractType in
\* {text, html, links}.
MeetsRequirements(a) ==
    /\ a.type \in ActionType
    /\ a.type = "navigate" => ~Falsy(a.url)
    /\ a.type \in {"click", "type"} => ~Falsy(a.selector)
    /\ a.type = "type" => ~Falsy(a.text)
    /\ a.type = "scroll" => a.scroll_direction \in ScrollDirection
    /\ a.type = "extract" => a.extract_type \in ExtractType

\* The order-preserving sub-list of the elements that meet the requirements.
RECURSIVE Kept(_)
Kept(items) ==
    IF items = <<>> THEN <<>>
    ELSE IF MeetsRequirements(Head(items)) THEN <<Head(items)>> \o Kept(Tail(items))
    ELSE Kept(Tail(items))

\* C5 (as claimed): for a reply that is a JSON array, generate_web_actions
\* does not raise: an element with an unknown type, a scrollDirection outside
\* {up, down} or an extractType outside {text, html, links} is dropped, and the
\* remaining valid actions are returned in their order.
C5_InvalidElementDropped ==
    (planOut.op = "generate" /\ planIn.kind = "array"
        /\ \E i \in 1..Len(planIn.items) : ~Constructs(planIn.items[i])) =>
            /\ ~planOut.raised
            /\ planOut.actions = Kept(planIn.items)

\* C6 (as claimed): for every list of constructed WebActions _validate_actions
\* returns the order-preserving sub-list of the actions that meet their type's
\* requirements.
C6_ValidateReturnsKept ==
    planOut.op = "validate" =>
        /\ ~planOut.raised
        /\ planOut.actions = Kept(planIn.items)

\* The required-field table with its wait row: wait requires waitTime.
HasRequiredFields(a) ==
    /\ MeetsRequirements(a)
    /\ a.type = "wait" => a.wait_time # NoneI

\* C7 (as claimed): execute_task passes no action that lacks a field its type
\* requires to execute_action.
C7_NoIncompleteActionExecuted ==
    \A i \in 1..Len(calls) : HasRequiredFields(calls[i].action)

\* C8 (as claimed): execute_action on a controller that is not Initialized
\* (initialize() has not succeeded, or close() has returned) raises: no driver
\* call is made and no CommandResult is produced.
C8_NotInitializedRaises ==
    (ret.op = "execute_action" /\ ctl \in {"Uninitialized", "InitFailed", "Closed"}) =>
        /\ ret.raised /\ ret.error = "Browser not initialized"
        /\ ret.drv = <<>>
        /\ ret.result = NoResult

\* The CommandResult execute_action owes for what the sub-operation did.
Wrapped(d) == IF d.exc # "" THEN Result(FALSE, "", d.exc, FALSE) ELSE d.result

\* C9: on an Initialized controller execute_action does not raise: it returns
\* the sub-operation's result, and for an error of the sub-operation a result
\* with success = false and the error's description; the call leaves the
\* controller Initialized, with the same page, browser and driver handles.
C9_FailureBecomesResult ==
    /\ [](ret.op = "execute_action" /\ ctl = "Initialized" =>
            /\ ~ret.raised
            /\ \E ok \in BOOLEAN : ret.result = Wrapped(Dispatch(ret.action, ok))
            /\ ret.result.success <=> ret.result.error = ""
            /\ page # NoHandle /\ browser # NoHandle /\ playwright # NoHandle)
    /\ [][(ctl = "Initialized" /\ (ExecuteAction \/ StepCall)) =>
            /\ ctl' = "Initialized"
            /\ <<page, browser, playwright>>' = <<page, browser, playwright>>]_vars

C9_Witness ==
    /\ ret.op = "execute_action" /\ ctl = "Initialized"
    /\ ret.action.type = "navigate" /\ ret.action.url = NoneS
    /\ ~ret.raised /\ ~ret.result.success /\ ret.result.error = "AttributeError"

\* C10 (as claimed): in close() a teardown step that fails does not skip the
\* later ones: after page.close() raised, browser.close() and playwright.stop()
\* are still attempted, and after browser.close() raised, playwright.stop().
\* (A handle still set after close() is one close() had to release.)
C10_TeardownStepsIndependent ==
    (ret.op = "close" /\ ret.closeFail \in {"page", "browser"}) =>
        /\ (ret.closeFail = "page" /\ browser # NoHandle) => "browser.close" \in Range(ret.drv)
        /\ playwright # NoHandle => "playwright.stop" \in Range(ret.drv)

\* The place of a teardown call in the order page, browser, driver.
TeardownRank(c) == IF c = "page.close" THEN 1 ELSE IF c = "browser.close" THEN 2 ELSE 3
AllUnset == page = NoHandle /\ browser = NoHandle /\ playwright = NoHandle

\* C11: close() on a controller whose close() has returned, or that was never
\* initialized, makes no driver call, raises nothing and leaves the three
\* handles unset; after any close() that returned the three handles are unset,
\* and the handles it released were released in the order page, browser,
\* driver.
C11_CloseIdempotent ==
    /\ (ret.op = "close" /\ ret.was \in {"Closed", "Uninitialized"}) =>
          ~ret.raised /\ ret.drv = <<>> /\ AllUnset
    /\ (ret.op = "close" /\ ~ret.raised) =>
          /\ AllUnset
          /\ \A i, j \in 1..Len(ret.drv) :
                i < j => TeardownRank(ret.drv[i]) < TeardownRank(ret.drv[j])
          /\ ret.was = "Initialized" =>
                ret.drv = <<"page.close", "browser.close", "playwright.stop">>

C11_Witness ==
    ret.op = "close" /\ ret.was = "Closed" /\ launches > 0 /\ ret.drv = <<>> /\ AllUnset

\* ---- click fallbacks
ClickFallbacks == <<"text_exact", "text_partial", "xpath", "role">>
FallbackCalls == <<"get_by_text_exact", "get_by_text", "locator_xpath", "get_by_role">>
ClickDone == unit.fn = "_click" /\ unit.pc = "done"
\* The number of fallbacks of fb made when each is made only after all earlier
\* ones failed: up to and including the first that clicks.
AttemptsDue(fb, att) ==
    IF \E k \in 1..Len(fb) : fb[k] \in att
    THEN CHOOSE k \in 1..Len(fb) : fb[k] \in att /\ \A j \in 1..(k - 1) : fb[j] \notin att
    ELSE Len(fb)

\* C12: for a click selector without an engine prefix whose verbatim attempt
\* fails, the driver calls after it are exact text, partial text, XPath, role
\* button, in that order, each made only if all earlier ones failed; if all
\* four fail the raised error carries the four failure reasons.
C12_ClickFallbackOrder ==
    (ClickDone /\ ~HasEnginePrefix(unit.selector) /\ "verbatim" \notin unit.att) =>
        /\ unit.out.drv = <<"wait_for_selector">>
              \o SubSeq(FallbackCalls, 1, AttemptsDue(ClickFallbacks, unit.att))
        /\ unit.att = {} =>
              /\ unit.out.errors = <<"text exact failed: driver error",
                                     "text partial failed: driver error",
                                     "xpath failed: driver error",
                                     "role button exact failed: driver error">>
              /\ unit.out.exc = "Failed to click element with provided selector and fallbacks. "
                    \o "text exact failed: driver error; text partial failed: driver error; "
                    \o "xpath failed: driver error; role button exact failed: driver error"

C12_Witness ==
    /\ ClickDone /\ unit.selector = "Submit" /\ unit.att = {}
    /\ unit.out.exc # "" /\ Len(unit.out.drv) = 5

\* C13 as stated: a click fails only after all four fallback strategies were
\* attempted and failed, whatever the selector.
C13_FailsOnlyAfterAllFour ==
    (ClickDone /\ StartsWith(unit.out.exc, ClickFailed)) =>
        \A k \in 1..4 : FallbackCalls[k] \in Range(unit.out.drv)

\* The fallbacks that apply to a selector: the two text matches only without
\* an engine prefix.
Applicable(selector) ==
    IF HasEnginePrefix(selector) THEN <<3, 4>> ELSE <<1, 2, 3, 4>>

\* C13: a click fails with the click error only when the verbatim attempt and
\* every fallback that applies to the selector (XPath and role button, and for
\* a selector without an engine prefix the two text matches before them) were
\* attempted and failed.
C13_FailsOnlyAfterApplicable ==
    (ClickDone /\ StartsWith(unit.out.exc, ClickFailed)) =>
        /\ unit.att = {} \/ (HasEnginePrefix(unit.selector) /\ unit.att \subseteq {"text_exact", "text_partial"})
        /\ unit.out.drv = <<"wait_for_selector">>
              \o [i \in 1..Len(Applicable(unit.selector)) |->
                     FallbackCalls[Applicable(unit.selector)[i]]]
        /\ Len(unit.out.errors) = Len(Applicable(unit.selector))

C13_Witness ==
    /\ ClickDone /\ unit.selector = "xpath=//button"
    /\ StartsWith(unit.out.exc, ClickFailed)
    /\ unit.out.drv = <<"wait_for_selector", "locator_xpath", "get_by_role">>

\* ---- URL normalization
NavigateDone == unit.fn = "_navigate" /\ unit.pc = "done"
HasScheme(u) ==
    \/ (Len(u) >= 7 /\ SubSeq(u, 1, 7) = "http://")
    \/ (Len(u) >= 8 /\ SubSeq(u, 1, 8) = "https://")

\* C20: the URL navigate requests is the given URL when that starts with
\* http:// or https://, and https:// followed by the given URL otherwise;
\* normalizing the requested URL again changes nothing, and the requested URL
\* starts with http:// or https://.
C20_UrlNormalized ==
    NavigateDone =>
        /\ unit.out.drv = <<"goto">>
        /\ HasScheme(unit.url) => unit.out.goto = unit.url
        /\ ~HasScheme(unit.url) => unit.out.goto = "https://" \o unit.url
        /\ normalize_url(unit.out.goto) = unit.out.goto
        /\ HasScheme(unit.out.goto)

C20_Witness ==
    /\ NavigateDone /\ unit.url = "example.com"
    /\ unit.out.goto = "https://example.com" /\ unit.out.result.success

\* ---- configuration
ValidateDone == unit.fn = "validate_config" /\ unit.pc = "done"
FromEnvDone == unit.fn = "from_env" /\ unit.pc = "done"

\* C18: validate_config raises the missing-credential error exactly when
\* openai_api_key is the empty string, and leaves the config as it was.
C18_ValidateIffEmpty ==
    ValidateDone =>
        /\ unit.out.raised <=> unit.config.openai_api_key = ""
        /\ unit.out.raised => unit.out.error = MissingCredential
        /\ unit.out.config = unit.config

C18_Witness ==
    ValidateDone /\ unit.config.openai_api_key = " " /\ ~unit.out.raised

\* C19: Config.from_env never raises: whatever the six variables hold it
\* returns a Config, with 30000 / 1920 / 1080 / INFO for each absent variable
\* and headless exactly when NODE_ENV is production.
C19_FromEnvNeverRaises ==
    FromEnvDone =>
        /\ ~unit.out.raised
        /\ unit.env["BROWSER_TIMEOUT"] = NoneS => unit.out.config.timeout = 30000
        /\ unit.env["VIEWPORT_WIDTH"] = NoneS => unit.out.config.viewport_width = 1920
        /\ unit.env["VIEWPORT_HEIGHT"] = NoneS => unit.out.config.viewport_height = 1080
        /\ unit.env["LOG_LEVEL"] = NoneS => unit.out.config.level = "INFO"
        /\ unit.out.config.headless <=> unit.env["NODE_ENV"] = "production"

\* ---- command line
\* The trimmed, lower-cased form of each input line.
TrimmedLower ==
    [l \in InputLines |->
        IF l \in {"exit"} THEN "exit"
        ELSE IF l = " Quit " THEN "quit"
        ELSE IF l = "Q" THEN "q"
        ELSE IF l \in {"help", " HELP"} THEN "help"
        ELSE IF l \in {"", "  "} THEN ""
        ELSE l]
Interactive == app.pc # "none" /\ Falsy(app.command)
\* The step in which console.input returned a line and the loop body ran.
LineRead ==
    /\ app.pc = "input" /\ app'.inputs = app.inputs + 1
    /\ app'.ended \in {"none", "exit_word"}

\* C14: in the interactive loop an input line whose trimmed lower-cased form is
\* exit, quit or q ends the loop without an execute_task call; help shows the
\* help text and goes back to the loop head without an execute_task call; an
\* empty or blank line goes back to the loop head without one; any other line
\* makes exactly one execute_task call with that line as prompt, and its return
\* goes back to the loop head, which prompts again while the running flag is
\* set.
C14_InputDispatch ==
    /\ [][LineRead =>
            LET c == TrimmedLower[app'.line]
            IN  /\ c \in {"exit", "quit", "q"} =>
                      app'.pc = "cleanup" /\ app'.ended = "exit_word" /\ app'.log = app.log
                /\ c = "help" =>
                      app'.pc = "loop" /\ app'.log = Append(app.log, "show_help")
                /\ c = "" => app'.pc = "loop" /\ app'.log = app.log
                /\ c \notin {"exit", "quit", "q", "help", ""} =>
                      /\ app'.pc = "task" /\ app'.prompt = app'.line
                      /\ app'.log = Append(app.log, "execute_task")]_vars
    /\ [][(Interactive /\ app.pc = "task" /\ app'.pc # "task") =>
            app'.pc = "loop" /\ app'.log = app.log]_vars
    /\ [][(app.pc = "loop" /\ app.running /\ app'.pc # "loop") => app'.pc = "input"]_vars

C14_Witness ==
    /\ Interactive /\ app.pc = "cleanup" /\ app.line = " Quit " /\ app.ended = "exit_word"
    /\ app.inputs = 2 /\ app.prompt = "exit now"
    /\ app.log = <<"validate_config", "initialize", "execute_task">>

\* C15: in interactive mode, after a signal delivered while a task was
\* executing the loop goes on to prompt for the next instruction.
C15_InterruptKeepsLoop ==
    [][(Interactive /\ app.pc = "loop" /\ app.sigAt = "task" /\ app'.pc # "loop") =>
          app'.pc = "input"]_vars

\* C16: whichever way run_app ends, cleanup has called close() once, as the
\* last call, before the process exits; an exception of close() is caught and
\* reported and the exit status is the one the way of ending gives: 1 after a
\* failed initialization or an exception out of the loop, else 0.
C16_CleanupOnEveryExit ==
    /\ app.pc \in {"main", "exit"} =>
          /\ app.ended \in {"init_failed", "command_done", "exit_word", "eof", "flag", "error"}
          /\ ret.op = "close"
          /\ app.log[Len(app.log)] = "close"
          /\ Cardinality({i \in 1..Len(app.log) : app.log[i] = "close"}) = 1
          /\ app.cleanupError <=> ret.raised
    /\ app.pc \in {"run_app", "command", "task", "loop", "input", "cleanup"} =>
          "close" \notin Range(app.log)
    /\ app.pc = "exit" =>
          app.status = IF app.ended \in {"init_failed", "error"} THEN 1 ELSE 0

C16_Witness ==
    /\ app.pc = "exit" /\ app.ended = "eof" /\ app.cleanupError
    /\ ret.op = "close" /\ ret.raised /\ app.status = 0

\* C17: with an empty credential the browser controller is never initialized
\* and no task is executed, and the process exits with status 1; when the
\* browser initialization fails no task is executed and the process exits with
\* status 1; validate_config is called before the controller's initialize().
C17_NoStartWithoutCredential ==
    /\ (app.pc # "none" /\ app.key = "") =>
          /\ "initialize" \notin Range(app.log) /\ "execute_task" \notin Range(app.log)
          /\ ret.op # "initialize" /\ launches = 0
          /\ browser = NoHandle /\ page = NoHandle
          /\ app.pc = "exit" => app.status = 1
    /\ (ret.op = "initialize" /\ ret.raised) => app.ended = "init_failed"
    /\ (app.pc # "none" /\ app.ended = "init_failed") =>
          /\ "execute_task" \notin Range(app.log)
          /\ app.pc = "exit" => app.status = 1
    /\ (app.pc # "none" /\ app.log # <<>>) => app.log[1] = "validate_config"

C17_Witness ==
    /\ app.pc = "exit" /\ app.key = "" /\ app.status = 1
    /\ app.log = <<"validate_config", "close">>

\* ---- scroll and wait
ExecuteDone == unit.fn = "execute_action" /\ unit.pc = "done" /\ unit.pg # NoHandle

\* C21: a scroll action scrolls the window by +500 when its direction is down
\* or absent and by -500 when it is up, and a successful result reports that
\* signed amount and the direction.
C21_ScrollDelta ==
    (ExecuteDone /\ unit.action.type = "scroll") =>
        LET amount == IF unit.action.scroll_direction = "up" THEN -500 ELSE 500
        IN  /\ unit.out.drv = <<"evaluate">>
            /\ unit.sub.scrollBy = amount
            /\ ~unit.out.raised
            /\ unit.out.result.success <=> unit.ok
            /\ unit.ok => /\ unit.out.result.value = amount
                          /\ unit.out.result.data =
                                IF unit.action.scroll_direction = "up" THEN "up" ELSE "down"

C21_Witness ==
    /\ ExecuteDone /\ unit.action.type = "scroll" /\ unit.action.scroll_direction = "up"
    /\ unit.out.result.success /\ unit.out.result.value = -500 /\ unit.sub.scrollBy = -500

\* C27: a wait action with waitTime = w suspends for w milliseconds and
\* returns success echoing w, for every integer w, 0 included; only an absent
\* waitTime gives the default of 1000 milliseconds.
C27_WaitTimeHonoured ==
    (ExecuteDone /\ unit.action.type = "wait") =>
        LET w == IF unit.action.wait_time = NoneI THEN 1000 ELSE unit.action.wait_time
        IN  /\ unit.out.result.success
            /\ unit.sub.slept = w
            /\ unit.out.result.value = w

\* ---- click, the error message and the single click
\* C22: when a click fails after all its attempts, the error message carries
\* one failure description for every attempt made, the verbatim attempt
\* included.
C22_EveryAttemptReported ==
    (ClickDone /\ StartsWith(unit.out.exc, ClickFailed)) =>
        /\ unit.out.exc = ClickFailed \o Join(unit.out.errors, "; ")
        /\ Len(unit.out.errors) = Len(unit.out.drv)

\* The attempts _click makes for a selector, in order, and the driver call of
\* each.
StrategyOrder(selector) ==
    IF HasEnginePrefix(selector) THEN <<"verbatim", "xpath", "role">>
    ELSE <<"verbatim", "text_exact", "text_partial", "xpath", "role">>
CallOf(strategy) ==
    IF strategy = "verbatim" THEN "wait_for_selector"
    ELSE IF strategy = "text_exact" THEN "get_by_text_exact"
    ELSE IF strategy = "text_partial" THEN "get_by_text"
    ELSE IF strategy = "xpath" THEN "locator_xpath"
    ELSE "get_by_role"

\* C30: a click action clicks at most once: the attempts stop at the first
\* one that succeeds, the result is then success with the selector as given,
\* and the result is success exactly when one of the attempts made for the
\* selector succeeds.
C30_AtMostOneClick ==
    ClickDone =>
        LET order == StrategyOrder(unit.selector)
            n == AttemptsDue(order, unit.att)
            clicks == \E k \in 1..Len(order) : order[k] \in unit.att
        IN  /\ (unit.out.exc = "" /\ unit.out.result.success) <=> clicks
            /\ unit.out.selector = unit.selector
            /\ unit.out.drv = [i \in 1..n |-> CallOf(order[i])]
                  \o (IF "verbatim" \in unit.att THEN <<"click">> ELSE <<>>)

C30_Witness ==
    /\ ClickDone /\ unit.selector = "Submit" /\ unit.att = {"text_partial", "role"}
    /\ unit.out.result.success
    /\ unit.out.drv = <<"wait_for_selector", "get_by_text_exact", "get_by_text">>

\* ---- one browser session
OpenOf(kind) == {x \in unit.open : x[1] = kind}

\* C23: after any sequence of initialize() and close() calls at most one
\* browser and one page acquired by the controller are open, and an open
\* browser or page is the one the controller holds: none is left open and
\* unreferenced.
C23_OneSession ==
    unit.fn = "lifecycle" =>
        /\ Cardinality(OpenOf("browser")) <= 1
        /\ Cardinality(OpenOf("page")) <= 1
        /\ \A x \in OpenOf("browser") : x[2] = browser
        /\ \A x \in OpenOf("page") : x[2] = page

\* C29: when initialize() fails at any step and the close() it runs before
\* re-raising succeeds, every resource the call acquired is ended, the three
\* handles are unset, the controller is not Initialized (execute_action
\* raises the not-initialized error for every action) and the error raised is
\* the one of the failed step.
C29_FailedInitializeTornDown ==
    (unit.fn = "lifecycle" /\ ret.op = "initialize" /\ ret.raised
        /\ ret.closeFail = "none") =>
        /\ AllUnset
        /\ ctl = "InitFailed"
        /\ ret.error = "initialize: " \o ret.fail
        /\ \A kind \in {"driver", "browser", "page"} : <<kind, launches>> \notin unit.open
        /\ \A a \in ScrollWaitActions, ok \in BOOLEAN :
              LET e == execute_action(a, page, ok)
              IN  e.raised /\ e.error = "Browser not initialized"
        /\ ret.fail = "launch" => "playwright.stop" \in Range(ret.drv)
        /\ ret.fail \in {"new_page", "viewport"} =>
              {"browser.close", "playwright.stop"} \subseteq Range(ret.drv)

C29_Witness ==
    /\ unit.fn = "lifecycle" /\ ret.op = "initialize" /\ ret.raised
    /\ ret.fail = "viewport" /\ ret.closeFail = "none" /\ AllUnset /\ unit.open = {}
    /\ ret.drv = <<"start", "launch", "new_page", "set_viewport_size",
                   "page.close", "browser.close", "playwright.stop">>

\* ---- the task's status, its context, its results
\* C24: a task's status only moves pending -> running -> completed or failed:
\* it is running before the browser context is read or the LLM is called,
\* completed and failed are never changed afterwards, and the task that
\* execute_task returns is completed or failed.
C24_StatusLifecycle ==
    /\ [](pc = "created" => task.status = "pending" /\ context = NoContext /\ gen = NoOut)
    /\ [](pc \in {"context", "generate", "loop", "append"} => task.status = "running")
    /\ [](AtReturn => task.status \in {"completed", "failed"})
    /\ [][task'.status # task.status =>
            \/ pc = "idle" /\ task.status = "none" /\ task'.status = "pending"
            \/ task.status = "pending" /\ task'.status = "running"
            \/ task.status = "running" /\ task'.status \in {"completed", "failed"}
            \/ AtReturn /\ pc' = "idle" /\ task'.status = "none"]_vars

C24_Witness ==
    /\ pc = "finished" /\ task.status = "failed" /\ Len(task.results) = 2
    /\ Len(calls) = 2

\* C25: in an execute_task call the current URL is read first, the page content
\* is fetched exactly when that URL is not empty, a failure of that fetch gives
\* the empty string and does not fail the task, and the LLM client is called
\* once, never again after a failure, before any action is executed.
C25_ContextThenOneGeneration ==
    /\ [](pc = "generate" =>
            /\ Len(context.log) >= 1 /\ context.log[1] = "get_current_url"
            /\ "get_page_content" \in Range(context.log) <=> context.url # ""
            /\ Len(context.log) <= 2
            /\ context.failed => context.content = ""
            /\ task.status = "running" /\ gen = NoOut /\ calls = <<>>)
    /\ [](pc \in {"created", "context"} => gen = NoOut /\ calls = <<>>)
    /\ [](calls # <<>> => gen.op = "generate" /\ ~gen.raised)
    /\ [][pc = "context" => pc' \in {"context", "generate"}]_vars
    /\ [][gen' # gen => \/ pc = "generate" /\ gen = NoOut /\ gen'.op = "generate"
                        \/ pc' \in {"idle", "created"} /\ gen' = NoOut]_vars

C25_Witness ==
    /\ pc = "generate" /\ context.failed /\ context.content = ""
    /\ context.log = <<"get_current_url", "get_page_content">>
    /\ task.status = "running"

\* A CommandResult is well formed: an error exactly when success is false, a
\* screenshot only on a successful screenshot action.
WellFormed(r, a) ==
    /\ r.error # "" <=> ~r.success
    /\ r.screenshot => r.success /\ a.type = "screenshot"

\* C26: every CommandResult of the controller or of execute_task has an error
\* exactly when success is false, and a screenshot only when success is true
\* and the action was a screenshot.
C26_ResultsWellFormed ==
    /\ \A i \in 1..Len(task.results) :
          WellFormed(task.results[i],
                     IF i <= Len(task.actions) THEN task.actions[i] ELSE NoAction)
    /\ (ret.op = "execute_action" /\ ~ret.raised) => WellFormed(ret.result, ret.action)
    /\ \A i \in 1..Len(calls) : ~calls[i].raised => WellFormed(calls[i].result, calls[i].action)

C26_Witness ==
    /\ ret.op = "execute_action" /\ ~ret.raised /\ ret.action.type = "screenshot"
    /\ ret.result.success /\ ret.result.screenshot /\ ret.result.error = ""
    /\ pc = "append"

\* ---- shutdown flag
\* C28: in interactive mode, once a signal has set the running flag to false
\* no execute_task call is made for an input line read afterwards.
C28_NoTaskAfterSignal ==
    [][(Interactive /\ ~app.running /\ app.pc = "input") =>
          /\ app'.pc # "task"
          /\ app'.log = app.log \/ app'.log[Len(app'.log)] # "execute_task"]_vars
====
